---- MODULE Spec2Model ----
(***************************************************************************)
(* A model of crime_analytics.py: the two CSV readers, the day/night       *)
(* classification, the filters, the neighbourhood aggregation, the pie     *)
(* chart, the weekday/hour curves, and the main script that calls them.    *)
(*                                                                         *)
(* Values.  A Timestamp is the number of seconds since Monday 2014-06-02   *)
(* 00:00:00 local time (so dayofweek 0 is Monday, as in pandas); NaT is    *)
(* the missing timestamp.  A coordinate is an integer number of grid       *)
(* units; NaN is the missing float.  A table (DataFrame) is the sequence   *)
(* of its rows in order; a row is a record of its columns plus idx, its    *)
(* index label.  A call of a Python function is a record: exc (the         *)
(* exception it raised, "" when it returned), ret (what it returned), df   *)
(* (its table argument as the call left it), printed (lines sent to        *)
(* stdout), opened (shapefiles opened), saved (image files written).       *)
(***************************************************************************)
EXTENDS Integers, Sequences, FiniteSets

VARIABLES
    pc,                 \* position in the main script, or of the single call
    csv_seattle,        \* content of seattle_incidents_summer_2014.csv
    csv_sanfrancisco,   \* content of sanfrancisco_incidents_summer_2014.csv
    df, df_day, df_night,       \* the script's Seattle tables
    df2, df2_day, df2_night,    \* the script's San Francisco tables
    stdout,             \* lines printed so far
    opened,             \* shapefiles opened so far
    written,            \* image files saved so far, each with what it shows
    main_cats,          \* the script's dictionary of category tables
    exc,                \* the exception that ended the run ("" if none)
    call                \* the function call made (single-call runs)

vars == <<pc, csv_seattle, csv_sanfrancisco, df, df_day, df_night,
          df2, df2_day, df2_night, stdout, opened, written,
          main_cats, exc, call>>

(***************************************************************************)
(* Bounds of the model.                                                    *)
(***************************************************************************)
\* rows a CSV file holds beyond the category blocks (see SeattleFiles)
MaxExtra == 1
\* rows of a table handed to a single call
MaxRows == 2

(***************************************************************************)
(* Missing values and generic helpers.                                     *)
(***************************************************************************)
NaT == -1
NaN == -1000
\* what Basemap returns for a coordinate it cannot project
Inf == 1000000
\* a variable the script has not assigned yet
Unset == <<>>

Range(s) == {s[i] : i \in 1..Len(s)}

RECURSIVE SeqsUpTo(_, _)
SeqsUpTo(S, n) ==
    IF n = 0 THEN {<<>>}
    ELSE LET shorter == SeqsUpTo(S, n - 1)
         IN shorter \cup {Append(s, x) : s \in {t \in shorter : Len(t) = n - 1}, x \in S}

RECURSIVE SumSeq(_)
SumSeq(s) == IF s = <<>> THEN 0 ELSE s[1] + SumSeq(Tail(s))

Min(S) == CHOOSE x \in S : \A y \in S : x <= y
Max(S) == CHOOSE x \in S : \A y \in S : x >= y

\* what a call did besides returning: lines printed, shapefiles opened,
\* image files saved, astral lookups made
Fx(printed, opnd, saved, looked) ==
    [printed |-> printed, opened |-> opnd, saved |-> saved, looked |-> looked]
Printed(lines) == Fx(lines, <<>>, <<>>, <<>>)
NoFx == Fx(<<>>, <<>>, <<>>, <<>>)

\* a call that returned ret / raised e, leaving its table argument as table
Returned(ret, table, fx) == [exc |-> "", ret |-> ret, df |-> table, fx |-> fx]
Raised(e, table, fx) == [exc |-> e, ret |-> Unset, df |-> table, fx |-> fx]

(***************************************************************************)
(* CSV text.  A float field is its text; "" is the empty field.  A date    *)
(* field "06/DD/2014 HH:MM:SS AM|PM" is the record of its parts; a time    *)
(* field "HH:MM" (24 h) likewise; EmptyField is the empty field.           *)
(***************************************************************************)
EmptyField == [empty |-> TRUE]

\* pandas' default NA strings that the modelled files use
DefaultNA == {"", "NaN"}

\* float(text), for the texts the modelled files use
FloatOf(s) ==
    CASE s = "0" -> 0 [] s = "1" -> 1 [] s = "2" -> 2 [] s = "3" -> 3
      [] s = "4" -> 4 [] s = "9" -> 9

IsFloatText(s) == s \in {"0", "1", "2", "3", "4", "9"}

\* read_csv's conversion of a float32 column's field
read_float(s, na_values) ==
    IF s \in DefaultNA \cup na_values THEN NaN ELSE FloatOf(s)

\* parse_dates' conversion of "06/DD/2014 HH:MM:SS AM|PM"
to_datetime(f) ==
    IF f = EmptyField THEN NaT
    ELSE LET h24 == (f.h % 12) + (IF f.pm THEN 12 ELSE 0)
         IN (f.d - 2) * 86400 + h24 * 3600 + f.mi * 60 + f.s

\* Timestamp.dayofweek and Timestamp.hour
dayofweek(ts) == (ts \div 86400) % 7
hour(ts) == (ts % 86400) \div 3600
date(ts) == ts \div 86400

(***************************************************************************)
(* Tables.                                                                 *)
(***************************************************************************)
Table(columns, rows) == [columns |-> columns, rows |-> rows]

HasColumn(t, name) == \E k \in 1..Len(t.columns) : t.columns[k] = name
ColIndex(t, name) == CHOOSE k \in 1..Len(t.columns) : t.columns[k] = name

\* row[name], for a row of table t
Get(t, row, name) == row.v[ColIndex(t, name)]

\* df[[names]]: the named columns, in that order
SelectColumns(t, names) ==
    Table(names,
          [i \in 1..Len(t.rows) |->
              [idx |-> t.rows[i].idx,
               v |-> [k \in 1..Len(names) |-> Get(t, t.rows[i], names[k])]]])

\* df.columns = names
RenameColumns(t, names) == [t EXCEPT !.columns = names]

\* df.loc[mask]: the rows whose mask is true, in order, under their labels
Loc(t, mask) ==
    LET Kept(i) == mask[i]
        keep == SelectSeq([i \in 1..Len(t.rows) |-> i], Kept)
    IN [t EXCEPT !.rows = [k \in 1..Len(keep) |-> t.rows[keep[k]]]]

(***************************************************************************)
(* Data readers.  Of the columns usecols keeps, the model carries the six  *)
(* that normalization selects; the file's lines are tuples of their fields *)
(* in file order.                                                          *)
(***************************************************************************)
SeattleHeader ==
    <<"Summarized Offense Description", "Date Reported",
      "Occurred Date or Date Range Start", "Occurred Date Range End",
      "Longitude", "Latitude">>

\* pd.read_csv("seattle_incidents_summer_2014.csv", ...)
read_csv_seattle(content) ==
    Table(SeattleHeader,
          [i \in 1..Len(content) |->
              [idx |-> i - 1,
               v |-> <<content[i][1],
                       to_datetime(content[i][2]),
                       to_datetime(content[i][3]),
                       to_datetime(content[i][4]),
                       read_float(content[i][5], {"X"}),
                       read_float(content[i][6], {"X"})>>]])

parse_csv_seattle(content, normalize) ==
    LET raw == read_csv_seattle(content)
        out == IF normalize
               THEN RenameColumns(
                        SelectColumns(raw,
                            <<"Summarized Offense Description",
                              "Occurred Date or Date Range Start",
                              "Longitude", "Latitude", "Date Reported",
                              "Occurred Date Range End">>),
                        <<"Cat", "Time", "X", "Y", "TimeRep", "TimeEnd">>)
               ELSE raw
    IN Returned(out, Unset, Printed(<<"Reading Seattle CSV...">>))

SanFranciscoHeader == <<"Category", "Date", "Time", "Resolution", "X", "Y">>

\* the day the script runs, which a bare time of day is parsed into
Today == 4532

\* parse_dates' conversion of the Date column, "06/DD/2014"
to_date(f) == IF f = EmptyField THEN NaT ELSE (f.d - 2) * 86400
\* parse_dates' conversion of the Time column, "HH:MM"
to_time(f) == IF f = EmptyField THEN NaT ELSE Today * 86400 + f.h * 3600 + f.mi * 60

\* a float32 field read_csv cannot convert (San Francisco has no na_values)
BadFloat(s) == s \notin DefaultNA /\ ~IsFloatText(s)

read_csv_sanfrancisco(content) ==
    Table(SanFranciscoHeader,
          [i \in 1..Len(content) |->
              [idx |-> i - 1,
               v |-> <<content[i][1],
                       to_date(content[i][2]),
                       to_time(content[i][3]),
                       content[i][4],
                       read_float(content[i][5], {}),
                       read_float(content[i][6], {})>>]])

\* r["Time"].replace(year=d.year, month=d.month, day=d.day)
merge_timedate(d, t) == IF t = NaT THEN NaT ELSE date(d) * 86400 + (t % 86400)

(* Two outcomes depend on the pandas build: NaT.replace(...) returns NaT   *)
(* or raises (nat_replace_raises), and assigning the result of apply on a  *)
(* frame without rows succeeds or raises (empty_apply_raises).             *)
parse_csv_sanfrancisco(content, normalize, remove_non_criminal, nat_replace_raises, empty_apply_raises) ==
    LET printed == Printed(<<"Reading San Franciso CSV">>)
        raw == read_csv_sanfrancisco(content)
        merged == [raw EXCEPT !.rows =
                      [i \in 1..Len(raw.rows) |->
                          [raw.rows[i] EXCEPT !.v[3] =
                              merge_timedate(raw.rows[i].v[2], raw.rows[i].v[3])]]]
        norm == IF normalize
                THEN RenameColumns(
                         SelectColumns(merged,
                             <<"Category", "Time", "X", "Y", "Resolution">>),
                         <<"Cat", "Time", "X", "Y", "Res">>)
                ELSE raw
        mask == [i \in 1..Len(norm.rows) |->
                    Get(norm, norm.rows[i], "Cat") # "NON-CRIMINAL"]
        out == IF remove_non_criminal THEN Loc(norm, mask) ELSE norm
    IN  IF \E i \in 1..Len(content) :
              BadFloat(content[i][5]) \/ BadFloat(content[i][6])
        THEN Raised("ValueError", Unset, printed)
        ELSE IF normalize /\ \E i \in 1..Len(raw.rows) : raw.rows[i].v[2] = NaT
        THEN Raised("TypeError", Unset, printed)
        ELSE IF normalize /\ nat_replace_raises
                /\ \E i \in 1..Len(raw.rows) : raw.rows[i].v[3] = NaT
        THEN Raised("TypeError", Unset, printed)
        ELSE IF normalize /\ empty_apply_raises /\ Len(raw.rows) = 0
        THEN Raised("ValueError", Unset, printed)
        ELSE IF remove_non_criminal /\ ~HasColumn(norm, "Cat")
        THEN Raised("KeyError", Unset, printed)
        ELSE Returned(out, Unset, printed)

(***************************************************************************)
(* Day and night.                                                          *)
(***************************************************************************)
\* a variant that also takes astral's own names of the two cities
SupportedOrAstralName == {"seattle", "sanfrancisco", "Seattle", "San Francisco"}

Supported == {"seattle", "sanfrancisco"}

\* astral's name of a supported city
AstralName(city) == IF city = "seattle" THEN "Seattle" ELSE "San Francisco"

\* cityinfo.sun(date=dt, local=True) with tzinfo stripped: the sunrise and
\* sunset of dt's calendar date, as local timestamps (early June values,
\* drifting a minute a day)
sun(name, dt) ==
    LET day == date(dt)
        rise == IF name = "Seattle" THEN 18720 ELSE 20880
        set == IF name = "Seattle" THEN 75780 ELSE 73800
    IN [sunrise |-> day * 86400 + rise - 60 * (day % 7),
        sunset |-> day * 86400 + set + 60 * (day % 7)]

\* a variant that takes exactly 30 minutes before sunrise, or after sunset,
\* for day
is_at_night_later(ts, city) ==
    IF city \notin {"seattle", "sanfrancisco"}
    THEN Raised("ValueError", Unset, NoFx)
    ELSE LET name == AstralName(city)
             fx == Fx(<<>>, <<>>, <<>>, <<name>>)
         IN IF ts = NaT
            THEN Raised("Exception", Unset, fx)
            ELSE Returned((sun(name, ts).sunrise - ts) > 1800
                             \/ (ts - sun(name, ts).sunset) > 1800,
                          Unset, fx)

is_at_night(ts, city) ==
    IF city \notin Supported
    THEN Raised("ValueError", Unset, NoFx)
    ELSE LET name == AstralName(city)
             fx == Fx(<<>>, <<>>, <<>>, <<name>>)
         IN IF ts = NaT
            THEN \* astral cannot compute the sun of a missing date
                 Raised("Exception", Unset, fx)
            ELSE LET dt == ts
                     sunrise == sun(name, dt).sunrise
                     sunset == sun(name, dt).sunset
                 IN Returned((sunrise - dt) >= 1800 \/ (dt - sunset) >= 1800,
                             Unset, fx)

\* df["Time"].apply(f): the first row on which f raises ends the call
FirstRaising(t, city) ==
    Min({i \in 1..Len(t.rows) :
            is_at_night(Get(t, t.rows[i], "Time"), city).exc # ""})
AnyRaising(t, city) ==
    \E i \in 1..Len(t.rows) :
        is_at_night(Get(t, t.rows[i], "Time"), city).exc # ""

\* a variant that drops the night rows from the table it is given
filter_day_in_place(t, city) ==
    LET fx == Printed(<<"Selecting day entries...">>)
        mask == [i \in 1..Len(t.rows) |->
                    ~is_at_night(Get(t, t.rows[i], "Time"), city).ret]
    IN IF \E i \in 1..Len(t.rows) :
             is_at_night(Get(t, t.rows[i], "Time"), city).exc # ""
       THEN Raised("Exception", t, fx)
       ELSE Returned(Loc(t, mask), Loc(t, mask), fx)

filter_day(t, city) ==
    LET fx == Printed(<<"Selecting day entries...">>)
        mask == [i \in 1..Len(t.rows) |->
                    ~is_at_night(Get(t, t.rows[i], "Time"), city).ret]
    IN IF ~HasColumn(t, "Time") THEN Raised("KeyError", t, fx)
       ELSE IF AnyRaising(t, city)
       THEN Raised(is_at_night(Get(t, t.rows[FirstRaising(t, city)], "Time"),
                               city).exc, t, fx)
       ELSE Returned(Loc(t, mask), t, fx)

\* a variant for which the night starts 30 minutes after sunset and ends at
\* midnight
filter_night_evening(t, city) ==
    LET fx == Printed(<<"Selecting night entries...">>)
        mask == [i \in 1..Len(t.rows) |->
                    LET ts == Get(t, t.rows[i], "Time")
                    IN ts - sun(AstralName(city), ts).sunset >= 1800]
    IN IF \E i \in 1..Len(t.rows) :
             is_at_night(Get(t, t.rows[i], "Time"), city).exc # ""
       THEN Raised("Exception", t, fx)
       ELSE Returned(Loc(t, mask), t, fx)

filter_night(t, city) ==
    LET fx == Printed(<<"Selecting night entries...">>)
        mask == [i \in 1..Len(t.rows) |->
                    is_at_night(Get(t, t.rows[i], "Time"), city).ret]
    IN IF ~HasColumn(t, "Time") THEN Raised("KeyError", t, fx)
       ELSE IF AnyRaising(t, city)
       THEN Raised(is_at_night(Get(t, t.rows[FirstRaising(t, city)], "Time"),
                               city).exc, t, fx)
       ELSE Returned(Loc(t, mask), t, fx)

filter_cat(t, cat) ==
    LET mask == [i \in 1..Len(t.rows) |-> Get(t, t.rows[i], "Cat") = cat]
    IN IF ~HasColumn(t, "Cat") THEN Raised("KeyError", t, NoFx)
       ELSE Returned(Loc(t, mask), t, NoFx)

(***************************************************************************)
(* Map utils.  A neighbourhood polygon is the set of grid cells it covers, *)
(* a point is a cell, and a polygon contains the points of its cells.      *)
(***************************************************************************)
\* the polygons of map/<city>/Neighborhoods.shp, in longitude/latitude
Shapefile(shapepath) ==
    IF shapepath = "map/seattle/Neighborhoods"
    THEN << {<<1, 1>>, <<1, 2>>}, {<<2, 1>>}, {<<2, 2>>, <<3, 2>>} >>
    ELSE << {<<0, 0>>, <<1, 0>>}, {<<0, 1>>}, {<<1, 1>>, <<1, 2>>}, {<<2, 2>>} >>

\* shapefile.bounds
Bounds(shapepath) ==
    LET shapes == Shapefile(shapepath)
        cells == UNION Range(shapes)
    IN [x_min |-> Min({c[1] : c \in cells}), y_min |-> Min({c[2] : c \in cells}),
        x_max |-> Max({c[1] : c \in cells}), y_max |-> Max({c[2] : c \in cells})]

\* city_map(x, y): global to local coordinates, in hundredths of a grid unit
\* from the map's lower left corner (x_min - x_margin, y_min - y_margin)
city_map(b, x, y) ==
    IF x = NaN \/ y = NaN THEN <<Inf, Inf>>
    ELSE <<(x - b.x_min) * 100 + (b.x_max - b.x_min),
           (y - b.y_min) * 100 + (b.y_max - b.y_min)>>

\* city_map.city: the shapefile's polygons in local coordinates
city_polygons(shapepath) ==
    LET shapes == Shapefile(shapepath)
        b == Bounds(shapepath)
    IN [k \in 1..Len(shapes) |-> {city_map(b, c[1], c[2]) : c \in shapes[k]}]

\* prep(polygon).contains(point)
contains(polygon, point) == point \in polygon

\* a variant that counts the places, not the points
count_places_in_polygon(polygon, points) ==
    Cardinality({pt \in Range(points) : contains(polygon, pt)})

count_points_in_polygon(polygon, points) ==
    LET Inside(pt) == contains(polygon, pt)
    IN Len(SelectSeq(points, Inside))

\* breaks, times num_breaks: [0.] + [i * max_count / 8 ...] + [1e20]
Breaks8(max_count) ==
    <<0>> \o [i \in 1..8 |-> (i - 1) * max_count] \o <<8 * Inf>>

self_categorize(entry, breaks8) ==
    LET hits == {i \in 0..(Len(breaks8) - 2) :
                    8 * entry > breaks8[i + 1] /\ 8 * entry <= breaks8[i + 2]}
    IN IF hits = {} THEN -1 ELSE Min(hits)

map_neighborhood(t, city, output_file, output_title) ==
    LET line == <<"Creating heat map", output_file>>
        shapepath == IF city = "seattle" THEN "map/seattle/Neighborhoods"
                     ELSE "map/sanfrancisco/Neighborhoods"
        b == Bounds(shapepath)
        polygons == city_polygons(shapepath)
        mapped_points == [i \in 1..Len(t.rows) |->
                            city_map(b, Get(t, t.rows[i], "X"),
                                        Get(t, t.rows[i], "Y"))]
        hood_polygons == UNION Range(polygons)
        InCity(pt) == contains(hood_polygons, pt)
        city_points == SelectSeq(mapped_points, InCity)
        Count == [k \in 1..Len(polygons) |->
                    count_points_in_polygon(polygons[k], city_points)]
        max_count == Max(Range(Count))
        Bins == [k \in 1..Len(polygons) |->
                    self_categorize(Count[k], Breaks8(max_count))]
        image == [file |-> output_file, title |-> output_title, kind |-> "map",
                  data |-> [Count |-> Count, Bins |-> Bins]]
    IN IF city \notin Supported
       THEN Raised("ValueError", t, Printed(<<line>>))
       ELSE IF ~(HasColumn(t, "X") /\ HasColumn(t, "Y"))
       THEN Raised("KeyError", t, Fx(<<line>>, <<shapepath>>, <<>>, <<>>))
       ELSE Returned(Unset, t, Fx(<<line>>, <<shapepath>>, <<image>>, <<>>))

(***************************************************************************)
(* Charts.                                                                 *)
(***************************************************************************)
\* df["Cat"].value_counts(): the counts of the categories, largest first
RECURSIVE SortedDesc(_, _)
SortedDesc(count, cats) ==
    IF cats = {} THEN <<>>
    ELSE LET top == CHOOSE c \in cats : \A d \in cats : count[c] >= count[d]
         IN <<count[top]>> \o SortedDesc(count, cats \ {top})

value_counts(t) ==
    LET cats == {Get(t, t.rows[i], "Cat") : i \in 1..Len(t.rows)}
        count == [c \in cats |->
                    Cardinality({i \in 1..Len(t.rows) : Get(t, t.rows[i], "Cat") = c})]
    IN SortedDesc(count, cats)

\* the number of rows of each category of t
CatCounts(t) ==
    LET cats == {Get(t, t.rows[i], "Cat") : i \in 1..Len(t.rows)}
    IN [c \in cats |->
           Cardinality({i \in 1..Len(t.rows) : Get(t, t.rows[i], "Cat") = c})]

\* the orders value_counts can list the categories in: largest count first,
\* categories of equal count in an order the sort does not fix
DescOrders(count) ==
    LET cats == DOMAIN count
        n == Cardinality(cats)
    IN {index \in [1..n -> cats] :
           /\ \A i, j \in 1..n : i # j => index[i] # index[j]
           /\ \A i \in 1..n, j \in 1..n :
                  i < j => count[index[i]] >= count[index[j]]}

\* index is the order value_counts lists the categories in; the Series is
\* the sequence of its <<category, count>> entries, and print writes it
cat_overview(t, index) ==
    LET count == CatCounts(t)
        sod_counts == [k \in 1..Len(index) |-> <<index[k], count[index[k]]>>]
    IN IF ~HasColumn(t, "Cat") THEN Raised("KeyError", t, NoFx)
       ELSE Returned(sod_counts, t, Printed(<<sod_counts>>))

cat_pie_display(t, show_cat, output_file, output_title) ==
    LET line == <<"Creating pie chart", output_file>>
        sod_counts == value_counts(t)
        n == Len(sod_counts)
        head == SubSeq(sod_counts, 1, IF show_cat < n THEN show_cat ELSE n)
        sizes == IF show_cat < n
                 THEN head \o <<SumSeq(SubSeq(sod_counts, show_cat + 1, n))>>
                 ELSE head
        explode == IF show_cat < n THEN show_cat + 1 ELSE show_cat
        image == [file |-> output_file, title |-> output_title, kind |-> "pie",
                  data |-> sizes]
    IN IF ~HasColumn(t, "Cat") THEN Raised("KeyError", t, Printed(<<line>>))
       ELSE IF Len(sizes) # explode
       THEN \* ax.pie: 'explode' must be of length 'x'
            Raised("ValueError", t, Printed(<<line>>))
       ELSE Returned(Unset, t, Fx(<<line>>, <<>>, <<image>>, <<>>))

\* a variant that marks a bucket instead of adding to it
RECURSIVE TallyMarks(_, _, _, _)
TallyMarks(t, i, ret, field) ==
    IF i > Len(t.rows) THEN ret
    ELSE LET ts == Get(t, t.rows[i], "Time")
             b == IF field = "dayofweek" THEN dayofweek(ts) ELSE hour(ts)
         IN TallyMarks(t, i + 1, [ret EXCEPT ![b + 1] = 1], field)

\* for _, row in df.iterrows(): ret[name][row["Time"].<field>] += 1, from
\* row i on (bucket b is element b + 1 of the list)
RECURSIVE Tally(_, _, _, _)
Tally(t, i, ret, field) ==
    IF i > Len(t.rows) THEN ret
    ELSE LET ts == Get(t, t.rows[i], "Time")
             b == IF field = "dayofweek" THEN dayofweek(ts) ELSE hour(ts)
         IN Tally(t, i + 1, [ret EXCEPT ![b + 1] = @ + 1], field)

\* a row whose Time is NaT has a NaN bucket, which is no list index
HasNaT(t) == \E i \in 1..Len(t.rows) : Get(t, t.rows[i], "Time") = NaT

\* the number of line styles
NumStyles == 7

\* dfs is a dictionary of tables: a function from names to tables
curve_by_weekday(dfs, output_file, output_title) ==
    LET line == <<"Creating weekdays plot", output_file>>
        names == DOMAIN dfs
        ret == [name \in names |->
                   Tally(dfs[name], 1, [x \in 1..7 |-> 0], "dayofweek")]
        image == [file |-> output_file, title |-> output_title,
                  kind |-> "weekdays", data |-> ret]
    IN IF \E name \in names :
             Len(dfs[name].rows) > 0 /\ ~HasColumn(dfs[name], "Time")
       THEN Raised("KeyError", dfs, Printed(<<line>>))
       ELSE IF \E name \in names : HasNaT(dfs[name])
       THEN Raised("TypeError", dfs, Printed(<<line>>))
       ELSE IF Cardinality(names) > NumStyles
       THEN Raised("ValueError", dfs, Printed(<<line>>))
       ELSE Returned(Unset, dfs, Fx(<<line>>, <<>>, <<image>>, <<>>))

curve_by_hour(dfs, output_file, output_title) ==
    LET line == <<"Creating hourly plot", output_file>>
        names == DOMAIN dfs
        ret == [name \in names |->
                   Tally(dfs[name], 1, [x \in 1..24 |-> 0], "hour")]
        image == [file |-> output_file, title |-> output_title,
                  kind |-> "hourly", data |-> ret]
    IN IF \E name \in names :
             Len(dfs[name].rows) > 0 /\ ~HasColumn(dfs[name], "Time")
       THEN Raised("KeyError", dfs, Printed(<<line>>))
       ELSE IF \E name \in names : HasNaT(dfs[name])
       THEN Raised("TypeError", dfs, Printed(<<line>>))
       ELSE IF Cardinality(names) > NumStyles
       THEN Raised("ValueError", dfs, Printed(<<line>>))
       ELSE Returned(Unset, dfs, Fx(<<line>>, <<>>, <<image>>, <<>>))

(***************************************************************************)
(* The files the script reads.  A chart of the script needs seven (six)    *)
(* categories to succeed, so a modelled file is made of a day block and a  *)
(* night block, each one line per category and each present or not,        *)
(* followed by up to MaxExtra lines drawn from a small set that holds      *)
(* empty fields and the day/night boundary.                                *)
(***************************************************************************)
SeattleCats ==
    <<"CAR PROWL", "VEHICLE THEFT", "OTHER PROPERTY", "BURGLARY",
      "ASSAULT", "FRAUD", "ROBBERY">>

Stamp(d, h, mi, sec, pm) == [d |-> d, h |-> h, mi |-> mi, s |-> sec, pm |-> pm]

\* lines: <<description, reported, start, end, longitude, latitude>>
SeattleDayBlock ==
    [k \in 1..Len(SeattleCats) |->
        <<SeattleCats[k], Stamp(4, 9, 0, 0, FALSE), Stamp(3, 12, 0, 0, TRUE),
          EmptyField, "1", "2">>]
SeattleNightBlock ==
    [k \in 1..Len(SeattleCats) |->
        <<SeattleCats[k], Stamp(4, 9, 0, 0, FALSE), Stamp(3, 11, 30, 0, TRUE),
          EmptyField, "2", "1">>]

\* 04:42:00 on 2 June is 30 minutes before Seattle's sunrise, 04:42:01 is
\* not; longitude 9 is outside every neighbourhood; the last three lines have
\* an empty start, an empty longitude and the latitude "X"
SeattleExtraLines ==
    LET reported == Stamp(4, 9, 0, 0, FALSE)
        night == Stamp(2, 4, 42, 0, FALSE)
        day == Stamp(2, 4, 42, 1, FALSE)
    IN {<<"CAR PROWL", reported, night, EmptyField, "2", "1">>,
        <<"CAR PROWL", reported, day, EmptyField, "9", "1">>,
        <<"CAR PROWL", reported, EmptyField, EmptyField, "2", "1">>,
        <<"CAR PROWL", reported, day, EmptyField, "", "1">>,
        <<"CAR PROWL", reported, night, EmptyField, "2", "X">>}

SeattleFiles ==
    {day \o night \o extra :
        day \in {<<>>, SeattleDayBlock}, night \in {<<>>, SeattleNightBlock},
        extra \in SeqsUpTo(SeattleExtraLines, MaxExtra)}

SanFranciscoCats ==
    <<"LARCENY/THEFT", "ASSAULT", "VEHICLE THEFT", "WARRANTS", "DRUG/NARCOTIC",
      "ROBBERY">>

Clock(h, mi) == [h |-> h, mi |-> mi]
Day(d) == [d |-> d]

\* lines: <<category, date, time, resolution, x, y>>
SanFranciscoDayBlock ==
    [k \in 1..Len(SanFranciscoCats) |->
        <<SanFranciscoCats[k], Day(7), Clock(15, 30), "NONE", "1", "1">>]
SanFranciscoNightBlock ==
    [k \in 1..Len(SanFranciscoCats) |->
        <<SanFranciscoCats[k], Day(8), Clock(1, 10), "NONE", "0", "1">>]

\* 05:16 on 4 June is 30 minutes before San Francisco's sunrise; the last
\* four lines have an empty x, the x "X", an empty date and an empty time
SanFranciscoExtraLines ==
    {<<"NON-CRIMINAL", Day(4), Clock(5, 16), "NONE", "2", "2">>,
     <<"ASSAULT", Day(4), Clock(5, 16), "NONE", "2", "2">>,
     <<"ASSAULT", Day(4), Clock(5, 17), "NONE", "", "2">>,
     <<"ASSAULT", Day(4), Clock(5, 17), "NONE", "X", "2">>,
     <<"ASSAULT", EmptyField, Clock(5, 16), "NONE", "2", "2">>,
     <<"ASSAULT", Day(4), EmptyField, "NONE", "2", "2">>}

SanFranciscoFiles ==
    {day \o night \o extra :
        day \in {<<>>, SanFranciscoDayBlock},
        night \in {<<>>, SanFranciscoNightBlock},
        extra \in SeqsUpTo(SanFranciscoExtraLines, MaxExtra)}

(***************************************************************************)
(* The main script, one action per statement.                              *)
(***************************************************************************)
InitMain ==
    /\ pc = "L319"
    /\ csv_seattle = Unset /\ csv_sanfrancisco = Unset
    /\ df = Unset /\ df_day = Unset /\ df_night = Unset
    /\ df2 = Unset /\ df2_day = Unset /\ df2_night = Unset
    /\ main_cats = Unset
    /\ stdout = <<>> /\ opened = <<>> /\ written = <<>>
    /\ exc = ""
    /\ call = Unset

\* the call r was made at from: its effects; an exception ends the run
StepFx(from, to, r) ==
    /\ pc = from
    /\ stdout' = stdout \o r.fx.printed
    /\ opened' = opened \o r.fx.opened
    /\ written' = written \o r.fx.saved
    /\ exc' = r.exc
    /\ pc' = IF r.exc = "" THEN to ELSE "raised"

\* the statement at from ran the call r
Step(from, to, r) == StepFx(from, to, r) /\ call' = call

\* name = <value returned>, when the call returned
Assign(new, old, r) == new = IF r.exc = "" THEN r.ret ELSE old

L319 ==
    \E content \in SeattleFiles :
        LET r == parse_csv_seattle(content, TRUE)
        IN /\ Step("L319", "L321", r)
           /\ csv_seattle' = content
           /\ Assign(df', df, r)
           /\ UNCHANGED <<csv_sanfrancisco, df_day, df_night, df2, df2_day,
                          df2_night, main_cats>>

\* a statement that calls f on the Seattle table df / on df_day / on df_night
OnDf(from, to, r) ==
    /\ Step(from, to, r)
    /\ df' = r.df
    /\ UNCHANGED <<csv_seattle, csv_sanfrancisco, df_day, df_night, df2,
                   df2_day, df2_night, main_cats>>
OnDfDay(from, to, r) ==
    /\ Step(from, to, r)
    /\ df_day' = r.df
    /\ UNCHANGED <<csv_seattle, csv_sanfrancisco, df, df_night, df2,
                   df2_day, df2_night, main_cats>>
OnDfNight(from, to, r) ==
    /\ Step(from, to, r)
    /\ df_night' = r.df
    /\ UNCHANGED <<csv_seattle, csv_sanfrancisco, df, df_day, df2,
                   df2_day, df2_night, main_cats>>

L321 == OnDf("L321", "L322",
             map_neighborhood(df, "seattle", "seattle_overview.png",
                              "Crimes Reported in Seattle by Neighborhood"))
L322 == OnDf("L322", "L324",
             cat_pie_display(df, 7, "seattle_cat.png",
                             "Crimes in Seattle by Category"))
L324 ==
    LET r == filter_day(df, "seattle")
    IN /\ Step("L324", "L325", r)
       /\ df' = r.df
       /\ Assign(df_day', df_day, r)
       /\ UNCHANGED <<csv_seattle, csv_sanfrancisco, df_night, df2, df2_day,
                      df2_night, main_cats>>
L325 == OnDfDay("L325", "L326",
                map_neighborhood(df_day, "seattle", "seattle_day.png",
                                 "Day Crimes in Seattle by Neighborhood"))
L326 == OnDfDay("L326", "L328",
                cat_pie_display(df_day, 7, "seattle_cat_day.png",
                                "Day Crimes in Seattle by Category"))
L328 ==
    LET r == filter_night(df, "seattle")
    IN /\ Step("L328", "L329", r)
       /\ df' = r.df
       /\ Assign(df_night', df_night, r)
       /\ UNCHANGED <<csv_seattle, csv_sanfrancisco, df_day, df2, df2_day,
                      df2_night, main_cats>>
L329 == OnDfNight("L329", "L330",
                  map_neighborhood(df_night, "seattle", "seattle_night.png",
                                   "Night Crimes in Seattle by Neighborhood"))
L330 == OnDfNight("L330", "L332",
                  cat_pie_display(df_night, 7, "seattle_cat_night.png",
                                  "Night Crimes in Seattle by Category"))

\* main_cats = {...}: four calls of filter_cat on df, one after the other
MainCatNames == <<"CAR PROWL", "VEHICLE THEFT", "OTHER PROPERTY", "BURGLARY">>
L332 ==
    LET r1 == filter_cat(df, MainCatNames[1])
        r2 == filter_cat(r1.df, MainCatNames[2])
        r3 == filter_cat(r2.df, MainCatNames[3])
        r4 == filter_cat(r3.df, MainCatNames[4])
        rs == <<r1, r2, r3, r4>>
        failed == {k \in 1..4 : rs[k].exc # ""}
        dict == [name \in Range(MainCatNames) |->
                    rs[CHOOSE k \in 1..4 : MainCatNames[k] = name].ret]
        r == IF failed = {} THEN Returned(dict, r4.df, NoFx)
             ELSE Raised(rs[Min(failed)].exc, rs[Min(failed)].df, NoFx)
    IN /\ Step("L332", "L336", r)
       /\ df' = r.df
       /\ Assign(main_cats', main_cats, r)
       /\ UNCHANGED <<csv_seattle, csv_sanfrancisco, df_day, df_night, df2,
                      df2_day, df2_night>>
L336 ==
    LET r == curve_by_hour(main_cats, "seattle_maincat.png",
                           "Main Crimes in Seattle by Time of Day")
    IN /\ Step("L336", "L338", r)
       /\ main_cats' = r.df
       /\ UNCHANGED <<csv_seattle, csv_sanfrancisco, df, df_day, df_night,
                      df2, df2_day, df2_night>>

L338 ==
    \E content \in SanFranciscoFiles, nat_replace_raises \in BOOLEAN,
       empty_apply_raises \in BOOLEAN :
        LET r == parse_csv_sanfrancisco(content, TRUE, TRUE, nat_replace_raises,
                                        empty_apply_raises)
        IN /\ Step("L338", "L340", r)
           /\ csv_sanfrancisco' = content
           /\ Assign(df2', df2, r)
           /\ UNCHANGED <<csv_seattle, df, df_day, df_night, df2_day,
                          df2_night, main_cats>>

OnDf2(from, to, r) ==
    /\ Step(from, to, r)
    /\ df2' = r.df
    /\ UNCHANGED <<csv_seattle, csv_sanfrancisco, df, df_day, df_night,
                   df2_day, df2_night, main_cats>>
OnDf2Day(from, to, r) ==
    /\ Step(from, to, r)
    /\ df2_day' = r.df
    /\ UNCHANGED <<csv_seattle, csv_sanfrancisco, df, df_day, df_night,
                   df2, df2_night, main_cats>>
OnDf2Night(from, to, r) ==
    /\ Step(from, to, r)
    /\ df2_night' = r.df
    /\ UNCHANGED <<csv_seattle, csv_sanfrancisco, df, df_day, df_night,
                   df2, df2_day, main_cats>>

L340 == OnDf2("L340", "L341",
              map_neighborhood(df2, "sanfrancisco", "sanfrancisco_overview.png",
                               "Crimes Reported in San Francisco by Neighborhood"))
L341 == OnDf2("L341", "L343",
              cat_pie_display(df2, 6, "sanfrancisco_cat.png",
                              "Crimes in San Francisco by Category"))
L343 ==
    LET r == filter_day(df2, "sanfrancisco")
    IN /\ Step("L343", "L344", r)
       /\ df2' = r.df
       /\ Assign(df2_day', df2_day, r)
       /\ UNCHANGED <<csv_seattle, csv_sanfrancisco, df, df_day, df_night,
                      df2_night, main_cats>>
L344 == OnDf2Day("L344", "L345",
                 map_neighborhood(df2_day, "sanfrancisco", "sanfrancisco_day.png",
                                  "Day Crimes in San Francisco by Neighborhood"))
L345 == OnDf2Day("L345", "L347",
                 cat_pie_display(df2_day, 6, "sanfrancisco_cat_day.png",
                                 "Day Crimes in San Francisco by Category"))
L347 ==
    LET r == filter_night(df2, "sanfrancisco")
    IN /\ Step("L347", "L348", r)
       /\ df2' = r.df
       /\ Assign(df2_night', df2_night, r)
       /\ UNCHANGED <<csv_seattle, csv_sanfrancisco, df, df_day, df_night,
                      df2_day, main_cats>>
L348 == OnDf2Night("L348", "L349",
                   map_neighborhood(df2_night, "sanfrancisco",
                                    "sanfrancisco_night.png",
                                    "Night Crimes in San Francisco by Neighborhood"))
L349 == OnDf2Night("L349", "L353",
                   cat_pie_display(df2_night, 6, "sanfrancisco_cat_night.png",
                                   "Night Crimes in San Francisco by Category"))

\* {"Seattle": a, "San Franciso": b}: the dictionary holds the tables themselves
Join(a, b) == [name \in {"Seattle", "San Franciso"} |->
                  IF name = "Seattle" THEN a ELSE b]
join_all == Join(df, df2)
join_day == Join(df_day, df2_day)
join_night == Join(df_night, df2_night)

\* a statement that calls f on join_all / join_day / join_night
OnJoinAll(from, to, r) ==
    /\ Step(from, to, r)
    /\ df' = r.df["Seattle"] /\ df2' = r.df["San Franciso"]
    /\ UNCHANGED <<csv_seattle, csv_sanfrancisco, df_day, df_night, df2_day,
                   df2_night, main_cats>>

L353 == OnJoinAll("L353", "L354",
                  curve_by_weekday(join_all, "join_all_week.png",
                                   "Crimes by Day of the Week"))
L354 == OnJoinAll("L354", "L357",
                  curve_by_hour(join_all, "join_all_hour.png",
                                "Crimes by Time of Day"))
L357 ==
    LET r == curve_by_weekday(join_day, "join_day_week.png",
                              "Day Crimes by Day of the Week")
    IN /\ Step("L357", "L360", r)
       /\ df_day' = r.df["Seattle"] /\ df2_day' = r.df["San Franciso"]
       /\ UNCHANGED <<csv_seattle, csv_sanfrancisco, df, df_night, df2,
                      df2_night, main_cats>>
L360 ==
    LET r == curve_by_weekday(join_night, "join_night_week.png",
                              "Night Crimes by Day of the Week")
    IN /\ Step("L360", "done", r)
       /\ df_night' = r.df["Seattle"] /\ df2_night' = r.df["San Franciso"]
       /\ UNCHANGED <<csv_seattle, csv_sanfrancisco, df, df_day, df2,
                      df2_day, main_cats>>

Init == InitMain

Next ==
    \/ L319 \/ L321 \/ L322 \/ L324 \/ L325 \/ L326 \/ L328 \/ L329 \/ L330
    \/ L332 \/ L336
    \/ L338 \/ L340 \/ L341 \/ L343 \/ L344 \/ L345 \/ L347 \/ L348 \/ L349
    \/ L353 \/ L354 \/ L357 \/ L360

Spec == Init /\ [][Next]_vars

(***************************************************************************)
(* Single calls: one function of the module is called once, on arguments   *)
(* drawn from bounded sets, in a fresh process.                            *)
(***************************************************************************)
Cities == {"seattle", "sanfrancisco", "Seattle", "portland", ""}

\* timestamps around each city's sunrise and sunset on a Monday, a Tuesday
\* and a Sunday, with midnight, noon and the last second of the day
SampleTimes ==
    {NaT} \cup UNION {
        LET s == sun(name, d * 86400)
        IN {s.sunrise + o : o \in {-1801, -1800, -1799, 0}}
           \cup {s.sunset + o : o \in {0, 1799, 1800, 1801}}
           \cup {d * 86400, d * 86400 + 43200, d * 86400 + 86399} :
        name \in {"Seattle", "San Francisco"}, d \in {0, 1, 6}}

\* a table of the generic tools: rows <<Cat, Time, X, Y>>, labelled 0, 1, ...
Frame(values) ==
    Table(<<"Cat", "Time", "X", "Y">>,
          [i \in 1..Len(values) |-> [idx |-> i - 1, v |-> values[i]]])

FilterTimes == {NaT, 16920, 16921, 43200, 75600, 77580}
FilterTables ==
    {Frame(values) :
        values \in SeqsUpTo({<<"A", ts, 1, 1>> : ts \in FilterTimes}, MaxRows)}

MapTables ==
    {Frame(values) :
        values \in SeqsUpTo({<<"A", 43200, x, y>> :
                                x \in {NaN, 1, 2, 9}, y \in {NaN, 1, 2}},
                            MaxRows)}

CurveTimes == {NaT, 16920, 129600, 604799}
CurveTables ==
    {Frame(values) :
        values \in SeqsUpTo({<<"A", ts, 1, 1>> : ts \in CurveTimes}, MaxRows)}
\* dictionaries of one table, of two tables (the second of one row at most),
\* and one of eight empty tables
CurveDicts ==
    [{"a"} -> CurveTables]
    \cup {[name \in {"a", "b"} |-> IF name = "a" THEN ta ELSE tb] :
             ta \in CurveTables, tb \in {t \in CurveTables : Len(t.rows) <= 1}}
    \cup {[name \in {"a", "b", "c", "d", "e", "f", "g", "h"} |-> Frame(<<>>)]}

InitCalls ==
    /\ pc = "call"
    /\ csv_seattle = Unset /\ csv_sanfrancisco = Unset
    /\ df = Unset /\ df_day = Unset /\ df_night = Unset
    /\ df2 = Unset /\ df2_day = Unset /\ df2_night = Unset
    /\ main_cats = Unset
    /\ stdout = <<>> /\ opened = <<>> /\ written = <<>>
    /\ exc = ""
    /\ call = Unset

Untouched ==
    UNCHANGED <<csv_seattle, csv_sanfrancisco, df, df_day, df_night, df2,
                df2_day, df2_night, main_cats>>

\* r1 and then, unless r1 raised, r2
Then(r1, r2) ==
    IF r1.exc # "" THEN r1
    ELSE [r2 EXCEPT !.fx = Fx(r1.fx.printed \o r2.fx.printed,
                              r1.fx.opened \o r2.fx.opened,
                              r1.fx.saved \o r2.fx.saved,
                              r1.fx.looked \o r2.fx.looked)]

CallIsAtNight ==
    \E ts \in SampleTimes, city \in Cities :
        LET r == is_at_night(ts, city)
        IN /\ StepFx("call", "returned", r)
           /\ call' = [fn |-> "is_at_night", ts |-> ts, city |-> city, r |-> r]
           /\ Untouched

\* filter_day(df, city) and then filter_night(df, city), as the script does
CallFilters ==
    \E t \in FilterTables, city \in Cities :
        LET day == filter_day(t, city)
            night == filter_night(day.df, city)
        IN /\ StepFx("call", "returned", Then(day, night))
           /\ call' = [fn |-> "filter_day, filter_night", df |-> t,
                       city |-> city, day |-> day, night |-> night]
           /\ Untouched

CallMapNeighborhood ==
    \E t \in MapTables, city \in Cities :
        LET r == map_neighborhood(t, city, "out.png", "title")
        IN /\ StepFx("call", "returned", r)
           /\ call' = [fn |-> "map_neighborhood", df |-> t, city |-> city,
                       r |-> r]
           /\ Untouched

CallCurveByHour ==
    \E dfs \in CurveDicts :
        LET r == curve_by_hour(dfs, "out.png", "title")
        IN /\ StepFx("call", "returned", r)
           /\ call' = [fn |-> "curve_by_hour", dfs |-> dfs, r |-> r]
           /\ Untouched

CallCurveByWeekday ==
    \E dfs \in CurveDicts :
        LET r == curve_by_weekday(dfs, "out.png", "title")
        IN /\ StepFx("call", "returned", r)
           /\ call' = [fn |-> "curve_by_weekday", dfs |-> dfs, r |-> r]
           /\ Untouched

\* points of a city's map, in local coordinates
SamplePoints(shapepath) ==
    {city_map(Bounds(shapepath), x, y) : x \in {NaN, 1, 2, 9}, y \in {1, 2}}

CallCountPoints ==
    \E shapepath \in {"map/seattle/Neighborhoods", "map/sanfrancisco/Neighborhoods"} :
        \E polygon \in Range(city_polygons(shapepath)),
           points \in SeqsUpTo(SamplePoints(shapepath), MaxRows) :
            /\ StepFx("call", "returned",
                      Returned(count_points_in_polygon(polygon, points), Unset, NoFx))
            /\ call' = [fn |-> "count_points_in_polygon", polygon |-> polygon,
                        points |-> points,
                        r |-> Returned(count_points_in_polygon(polygon, points),
                                       Unset, NoFx)]
            /\ Untouched

\* tables of up to MaxRows + 1 rows of two categories, and a table that
\* has no Cat column
CatTables ==
    {Frame(values) :
        values \in SeqsUpTo({<<c, 43200, 1, 1>> : c \in {"A", "B"}}, MaxRows + 1)}
    \cup {Table(<<"Time", "X", "Y">>, <<[idx |-> 0, v |-> <<43200, 1, 1>>]>>)}

CallCatOverview ==
    \E t \in CatTables :
        \E index \in (IF HasColumn(t, "Cat") THEN DescOrders(CatCounts(t))
                       ELSE {<<>>}) :
            LET r == cat_overview(t, index)
            IN /\ StepFx("call", "returned", r)
               /\ call' = [fn |-> "cat_overview", df |-> t, r |-> r]
               /\ Untouched

NextCalls ==
    \/ CallIsAtNight \/ CallFilters \/ CallMapNeighborhood
    \/ CallCountPoints \/ CallCurveByHour \/ CallCurveByWeekday
    \/ CallCatOverview

SpecCalls == InitCalls /\ [][NextCalls]_vars

(***************************************************************************)
(* Claims about the main script (checked under Spec).                      *)
(***************************************************************************)
ExpectedFiles ==
    <<"seattle_overview.png", "seattle_cat.png", "seattle_day.png",
      "seattle_cat_day.png", "seattle_night.png", "seattle_cat_night.png",
      "seattle_maincat.png", "sanfrancisco_overview.png", "sanfrancisco_cat.png",
      "sanfrancisco_day.png", "sanfrancisco_cat_day.png",
      "sanfrancisco_night.png", "sanfrancisco_cat_night.png",
      "join_all_week.png", "join_all_hour.png", "join_day_week.png",
      "join_night_week.png">>

FileNames(images) == [i \in 1..Len(images) |-> images[i].file]

Ended == pc \in {"done", "raised"}

IsTable(x) == DOMAIN x = {"columns", "rows"}

\* C1: a run of the main script ends having written the 17 image files,
\* each exactly once and in the listed order (all Seattle files before any
\* San Francisco file).  The code does not do this for every content of
\* the two CSV files: an exception of a chart or of is_at_night ends the
\* run early.
C1_RunWritesAllFiles == Ended => FileNames(written) = ExpectedFiles

\* C1, what does hold: the files written so far are a prefix of the list
\* (so none is written twice or out of order), and a run that reaches the
\* end of the script has written all 17.
C1_WrittenIsPrefix ==
    /\ Len(written) <= Len(ExpectedFiles)
    /\ FileNames(written) = SubSeq(ExpectedFiles, 1, Len(written))
    /\ pc = "done" => FileNames(written) = ExpectedFiles

\* every row of table t has a Time, an X and a Y
Complete(t) ==
    /\ \A name \in {"Cat", "Time", "X", "Y"} : HasColumn(t, name)
    /\ \A i \in 1..Len(t.rows) :
          /\ Get(t, t.rows[i], "Time") # NaT
          /\ Get(t, t.rows[i], "X") # NaN
          /\ Get(t, t.rows[i], "Y") # NaN

\* C2: the tables the two parsers return (normalize=True) have the columns
\* Cat, Time, X, Y and no record without a Time, an X or a Y, whatever the
\* CSV files hold.  The code returns records with NaT and NaN for empty
\* fields.
C2_NormalizedRecordsComplete ==
    /\ IsTable(df) => Complete(df)
    /\ IsTable(df2) => Complete(df2)

\* C5: no step changes a table a later step reads: whenever the script
\* holds a table, it is the table the parser (or the filter that made it,
\* applied to the parser's table) returned, up to the joined plots at the
\* end of the run.
C5_TablesUnchanged ==
    LET parsed == parse_csv_seattle(csv_seattle, TRUE).ret
        parsed2 == parse_csv_sanfrancisco(csv_sanfrancisco, TRUE, TRUE,
                                          FALSE, FALSE).ret
        Night(t, row, city) == is_at_night(Get(t, row, "Time"), city).ret
        IsDay(row) == ~Night(parsed, row, "seattle")
        IsNight(row) == Night(parsed, row, "seattle")
        IsDay2(row) == ~Night(parsed2, row, "sanfrancisco")
        IsNight2(row) == Night(parsed2, row, "sanfrancisco")
    IN /\ IsTable(df) => df = parsed
       /\ IsTable(df_day) =>
             df_day = [parsed EXCEPT !.rows = SelectSeq(parsed.rows, IsDay)]
       /\ IsTable(df_night) =>
             df_night = [parsed EXCEPT !.rows = SelectSeq(parsed.rows, IsNight)]
       /\ IsTable(df2) => df2 = parsed2
       /\ IsTable(df2_day) =>
             df2_day = [parsed2 EXCEPT !.rows = SelectSeq(parsed2.rows, IsDay2)]
       /\ IsTable(df2_night) =>
             df2_night = [parsed2 EXCEPT !.rows = SelectSeq(parsed2.rows, IsNight2)]
       /\ pc \in {"L336", "L338"} =>
             \A name \in DOMAIN main_cats :
                \A i \in 1..Len(parsed.rows) :
                   (parsed.rows[i] \in Range(main_cats[name].rows))
                      <=> (Get(parsed, parsed.rows[i], "Cat") = name)

\* C5: the run reached its end, with all six tables holding rows
C5_Witness ==
    /\ pc = "done"
    /\ Len(df.rows) > 0 /\ Len(df_day.rows) > 0 /\ Len(df_night.rows) > 0
    /\ Len(df2.rows) > 0 /\ Len(df2_day.rows) > 0 /\ Len(df2_night.rows) > 0

(***************************************************************************)
(* Claims about single calls (checked under SpecCalls).                    *)
(***************************************************************************)
\* the two city names the claims speak of
ClaimedCities == {"seattle", "sanfrancisco"}

Called(fn) == pc \in {"returned", "raised"} /\ DOMAIN call # {} /\ call.fn = fn

\* the position in table t of the row labelled idx
PositionOf(t, idx) == CHOOSE i \in 1..Len(t.rows) : t.rows[i].idx = idx

\* table part holds rows of table t only, in t's order
InOrderOf(part, t) ==
    /\ part.columns = t.columns
    /\ Range(part.rows) \subseteq Range(t.rows)
    /\ \A i, j \in 1..Len(part.rows) :
          i < j => PositionOf(t, part.rows[i].idx) < PositionOf(t, part.rows[j].idx)

\* C3: filter_day(df, city) and filter_night(df, city) split df into a
\* partition: when both return, every row of df is in exactly one of the two
\* results, neither holds a row that is not in df, and each keeps df's order.
C3_FiltersPartition ==
    Called("filter_day, filter_night") /\ call.day.exc = "" /\ call.night.exc = ""
    => LET day == call.day.ret
           night == call.night.ret
       IN /\ \A i \in 1..Len(call.df.rows) :
                (call.df.rows[i] \in Range(day.rows))
                   # (call.df.rows[i] \in Range(night.rows))
          /\ InOrderOf(day, call.df) /\ InOrderOf(night, call.df)
          /\ Len(day.rows) + Len(night.rows) = Len(call.df.rows)

\* C3: the filters split a table of a supported city into a day row and a
\* night row
C3_Witness ==
    /\ Called("filter_day, filter_night") /\ call.city \in ClaimedCities
    /\ call.day.exc = "" /\ call.night.exc = ""
    /\ Len(call.day.ret.rows) = 1 /\ Len(call.night.ret.rows) = 1
    /\ call.night.ret.rows[1].idx = 0

\* the second of its day of timestamp ts, and the seconds of the sunrise and
\* the sunset of that day in a supported city
SecondOfDay(ts) == ts - date(ts) * 86400
SunriseSecond(city, ts) ==
    sun(AstralName(city), date(ts) * 86400).sunrise - date(ts) * 86400
SunsetSecond(city, ts) ==
    sun(AstralName(city), date(ts) * 86400).sunset - date(ts) * 86400

\* C4: is_at_night(ts, city) is true exactly when ts is at least 1800 s
\* before the sunrise of its own date or at least 1800 s after the sunset of
\* that date; in particular less than 30 minutes before sunrise, or after
\* sunset, is day.
C4_NightIsThirtyMinutesOff ==
    Called("is_at_night") /\ call.city \in ClaimedCities /\ call.ts # NaT
    => LET t == SecondOfDay(call.ts)
           rise == SunriseSecond(call.city, call.ts)
           set == SunsetSecond(call.city, call.ts)
       IN /\ call.r.exc = ""
          /\ call.r.ret <=> (t + 1800 <= rise \/ t >= set + 1800)
          /\ (rise - 1800 < t /\ t < set + 1800) => call.r.ret = FALSE

\* C4: a timestamp exactly 30 minutes before sunrise was classified as night
C4_Witness ==
    /\ Called("is_at_night") /\ call.city \in ClaimedCities /\ call.ts # NaT
    /\ SecondOfDay(call.ts) + 1800 = SunriseSecond(call.city, call.ts)
    /\ call.r.ret = TRUE

\* the shapefile of a supported city
ShapepathOf(city) ==
    IF city = "seattle" THEN "map/seattle/Neighborhoods"
    ELSE "map/sanfrancisco/Neighborhoods"

\* the rows of table t whose point lies in cells, a set of longitude/latitude
\* cells of the shapefile
RowsIn(t, cells) ==
    {i \in 1..Len(t.rows) :
        <<Get(t, t.rows[i], "X"), Get(t, t.rows[i], "Y")>> \in cells}

\* C6: the Count map_neighborhood shows for a neighbourhood is the number of
\* incident points its polygon contains, a point that no polygon contains is
\* counted nowhere, and count_points_in_polygon(polygon, points) is the
\* number of elements of points the polygon contains (0 for the empty list).
C6_CountIsPointsInPolygon ==
    /\ Called("map_neighborhood") /\ call.r.exc = ""
       => LET shapes == Shapefile(ShapepathOf(call.city))
              Count == written[1].data.Count
          IN /\ Len(written) = 1 /\ Len(Count) = Len(shapes)
             /\ \A k \in 1..Len(shapes) :
                   Count[k] = Cardinality(RowsIn(call.df, shapes[k]))
             /\ SumSeq(Count) =
                   Cardinality(RowsIn(call.df, UNION Range(shapes)))
    /\ Called("count_points_in_polygon")
       => /\ call.r.ret =
                Cardinality({i \in 1..Len(call.points) :
                                call.points[i] \in call.polygon})
          /\ call.points = <<>> => call.r.ret = 0

\* C6: a map was drawn of two incidents at one place in a neighbourhood and
\* none elsewhere
C6_Witness ==
    /\ Called("map_neighborhood") /\ call.r.exc = ""
    /\ Len(call.df.rows) = 2
    /\ \E k \in 1..Len(written[1].data.Count) :
          /\ written[1].data.Count[k] = 2
          /\ SumSeq(written[1].data.Count) = 2
    /\ call.df.rows[1].v = call.df.rows[2].v

\* the one line map_neighborhood prints before it looks at the city
ProgressLine == <<"Creating heat map", "out.png">>

\* C7 as stated: for a city other than "seattle" and "sanfrancisco",
\* map_neighborhood and is_at_night raise ValueError before any other effect.
C7_RaisesBeforeAnyEffect ==
    (Called("map_neighborhood") \/ Called("is_at_night"))
    /\ call.city \notin ClaimedCities
    => /\ call.r.exc = "ValueError"
       /\ call.r.fx = NoFx
       /\ stdout = <<>> /\ opened = <<>> /\ written = <<>>

\* C7 as amended: for a city other than "seattle" and "sanfrancisco" both
\* raise ValueError; is_at_night does so before any sunrise/sunset lookup and
\* any other effect, map_neighborhood after printing its progress line and
\* before opening a shapefile or writing the output file.  For the two
\* supported names the city check raises nothing.
C7_RaisesBeforeFilesAndLookups ==
    /\ (Called("map_neighborhood") \/ Called("is_at_night"))
       /\ call.city \notin ClaimedCities
       => /\ call.r.exc = "ValueError" /\ exc = "ValueError" /\ pc = "raised"
          /\ call.r.fx.opened = <<>> /\ opened = <<>>
          /\ call.r.fx.saved = <<>> /\ written = <<>>
          /\ call.r.fx.looked = <<>>
          /\ stdout = IF call.fn = "map_neighborhood" THEN <<ProgressLine>>
                      ELSE <<>>
    /\ Called("map_neighborhood") /\ call.city \in ClaimedCities
       => /\ call.r.exc = ""
          /\ opened = <<ShapepathOf(call.city)>>
          /\ FileNames(written) = <<"out.png">>
    /\ Called("is_at_night") /\ call.city \in ClaimedCities
       => /\ call.r.fx.looked = <<AstralName(call.city)>>
          /\ call.r.exc = "" <=> call.ts # NaT

\* C7: map_neighborhood was called for "Seattle", which is not a supported
\* name, and raised
C7_Witness ==
    /\ Called("map_neighborhood") /\ call.city = "Seattle"
    /\ Len(call.df.rows) > 0
    /\ exc = "ValueError"

\* C8: curve_by_hour and curve_by_weekday count every row exactly once: for
\* each named table, bucket h of the 24 (d of the 7) is the number of its
\* rows whose Time has hour h (day of the week d), the buckets of a table
\* sum to its row count, and another table's rows change nothing in them.
C8_BucketsCountRows ==
    (Called("curve_by_hour") \/ Called("curve_by_weekday")) /\ call.r.exc = ""
    => LET ret == written[1].data
           byhour == call.fn = "curve_by_hour"
           width == IF byhour THEN 3600 ELSE 86400
           nbuckets == IF byhour THEN 24 ELSE 7
           \* the rows of table t that fall into bucket b
           RowsOf(t, b) ==
               {i \in 1..Len(t.rows) :
                   \E cycle \in 0..1 :
                      LET from == (cycle * nbuckets + b) * width
                          ts == IF byhour
                                THEN SecondOfDay(Get(t, t.rows[i], "Time"))
                                ELSE Get(t, t.rows[i], "Time")
                      IN from <= ts /\ ts < from + width /\ (byhour => cycle = 0)}
       IN /\ DOMAIN ret = DOMAIN call.dfs
          /\ \A name \in DOMAIN call.dfs :
                /\ Len(ret[name]) = nbuckets
                /\ \A b \in 0..(nbuckets - 1) :
                      ret[name][b + 1] = Cardinality(RowsOf(call.dfs[name], b))
                /\ SumSeq(ret[name]) = Len(call.dfs[name].rows)

\* C8: two tables were counted by the hour, one of them with two rows in
\* the same hour
C8_Witness ==
    /\ Called("curve_by_hour") /\ call.r.exc = ""
    /\ DOMAIN call.dfs = {"a", "b"}
    /\ Len(call.dfs["a"].rows) = 2 /\ Len(call.dfs["b"].rows) = 1
    /\ \E h \in 1..24 : written[1].data["a"][h] = 2

====
